---- MODULE Spec2Model ----
(***************************************************************************)
(* Model of acoshift/ncd2023.                                              *)
(*                                                                         *)
(* Core A (stateful/result.md): producers call addPointStateful, which     *)
(* puts an op on opChan and waits on the op's done channel; the single     *)
(* goroutine startBgWorker collects ops in buff and flushes them to the    *)
(* tables user_points and point_txs.                                       *)
(*                                                                         *)
(* Core B (singleflight/main.go): ensureFeatureActiveWithSingleFlight      *)
(* reads the features table through a singleflight.Group.                  *)
(***************************************************************************)
EXTENDS Integers, Sequences, FiniteSets, Bags, TLC

\* ------------------------------------------------------------------ bounds

\* Largest value of the scaled-down signed integer type standing for int64;
\* arithmetic wraps around at MaxInt64 / MinInt64 as Go's int64 does.
MaxInt64 == 31

\* Scaled-down capacity of opChan (20000 in the source).
opChanCap == 1

\* Scaled-down flush threshold (7000 in the source).
buffSize == 2

\* Number of ops the producers submit altogether.
MaxOps == 3

\* Number of store calls that fail after an earlier store call of the same
\* flush has written (a failed read or a failed first write is not counted:
\* it leaves the store as it was).
MaxFailures == 1

\* Number of calls of ensureFeatureActiveWithSingleFlight altogether.
MaxDoCalls == 3

MinInt64 == -MaxInt64 - 1

Producers == {"p1", "p2"}

\* The goroutines of the benchmark itself, n * conPerUser of them: more than
\* buff and opChan hold together.
BurstProducers == Producers \cup {"p3"}

Users == {"u1", "u2"}

\* The arguments (userID, amount) of the calls of addPointStateful: a debit
\* and a credit on one user, a credit on another. Two credits overflow.
Inputs == {<<"u1", -20>>, <<"u1", 30>>, <<"u2", 30>>}

\* ------------------------------------------------------------ Core A state

VARIABLES
    user_points,   \* table user_points: user_id -> balance (rows that exist)
    point_txs,     \* table point_txs: bag of rows [userID, amount, op]
    opChan,        \* the submission queue
    doneCh,        \* op id -> content of the op's done channel (capacity 1)
    ppc,           \* producer -> position in newLoadWorkerStateful/addPointStateful
    pop,           \* producer -> the op of its current call
    ops,           \* every op constructed so far, by id
    result,        \* op id -> what addPointStateful returned for it
    completions,   \* op id -> number of sends on its done channel
    deadline,      \* the producers' context (nctx) is done
    ctxDone,       \* the worker's context is done
    wpc,           \* position of startBgWorker
    buff,          \* startBgWorker.buff
    callbacks,     \* startBgWorker.callbacks
    txLogs,        \* startBgWorker.txLogs
    state,         \* flush: state (in-memory balances of this flush)
    dirty,         \* flush: dirty
    idx,           \* flush: index of the range loop in progress
    pre,           \* store contents when the flush in progress began
    failures,      \* number of counted store failures
    ref            \* what addPoint makes of the ops received so far, one by one

varsA == <<user_points, point_txs, opChan, doneCh, ppc, pop, ops, result,
           completions, deadline, ctxDone, wpc, buff, callbacks, txLogs,
           state, dirty, idx, pre, failures, ref>>

\* ------------------------------------------------------------ Core B state

VARIABLES
    features,      \* table features: name -> active (rows that exist)
    sfm,           \* featureActiveSF.m: key -> the call in flight (0: none)
    calls,         \* every singleflight call made so far, by id
    cpc,           \* caller -> position in ensureFeatureActiveWithSingleFlight
    ckey,          \* caller -> the feature it asks for
    ccall,         \* caller -> the singleflight call it leads or waits on
    cret,          \* caller -> what its last call returned
    ncalls,        \* number of calls of ensureFeatureActiveWithSingleFlight
    rctx,          \* caller -> its request context (r.Context()) is cancelled
    fresh,         \* caller in a call -> the values its key has had since it called
    age            \* caller -> how old the answer it last received was

varsB == <<features, sfm, calls, cpc, ckey, ccall, cret, ncalls, rctx, fresh,
           age>>

\* ------------------------------------------------------ snapshot cache state

VARIABLES
    cache,         \* featureActiveCache.m: name -> active (the published map)
    rfpc,          \* position of startUpdateFeatureActiveCache and its goroutine
    m,             \* updateFeatureActiveCache.m: the map being built
    scanSnap,      \* the rows that the query of the refresh in progress returns
    serving,       \* startUpdateFeatureActiveCache has returned nil
    rkey,          \* reader -> the feature of its last ensureFeatureActiveWithCache
    rret,          \* reader -> what its last ensureFeatureActiveWithCache returned
    rexp,          \* reader -> the answer of the last installed map when it read
    installed,     \* the rows of the query of the last refresh that succeeded
    lastErr,       \* the last refresh of the goroutine returned an error
    scanStale,     \* no refresh has begun since the last write of the store
    endedAfter,    \* a refresh begun after the last write of the store has ended
    okAfter        \* a refresh begun after the last write has ended without error

varsC == <<cache, rfpc, m, scanSnap, serving, rkey, rret, rexp, installed,
           lastErr, scanStale, endedAfter, okAfter>>

\* What the actions of Core A, and of the coalescing reader, leave alone.
othersA == <<varsB, varsC>>

othersB == <<varsA, varsC>>

vars == <<varsA, varsB, varsC>>

\* ----------------------------------------------------------------- helpers

\* int64 addition: the result wraps around.
Wrap(x) ==
    IF x > MaxInt64 THEN x - 2 * (MaxInt64 + 1)
    ELSE IF x < MinInt64 THEN x + 2 * (MaxInt64 + 1)
    ELSE x

\* m[k] of a Go map[string]int64: the zero value when k is absent.
Lookup(mp, k) == IF k \in DOMAIN mp THEN mp[k] ELSE 0

EmptyMap == [u \in {} |-> 0]

ErrInsufficient == "insufficient balance"

NoStore == [user_points |-> EmptyMap, point_txs |-> EmptyBag]

OpIds == 1..MaxOps

\* restoreState that loads no row: every user of the batch starts from 0.
restoreState_None(keys) == EmptyMap

\* restoreState: the rows of user_points whose user_id is among keys.
restoreState(keys) ==
    [u \in (DOMAIN user_points) \cap keys |-> user_points[u]]

\* The branch condition of the apply loop.
Insufficient(balance) == balance < 0

\* ApplyOp with the check made on the balance before the amount is added.
ApplyOp_CheckBeforeAdd(p, st) ==
    LET balance == Wrap(Lookup(st.state, p.userID) + p.amount) IN
    IF Insufficient(Lookup(st.state, p.userID))
    THEN [st EXCEPT !.callbacks = Append(@, [err |-> ErrInsufficient])]
    ELSE [state     |-> [u \in DOMAIN st.state \cup {p.userID} |->
                            IF u = p.userID THEN balance ELSE st.state[u]],
          dirty     |-> st.dirty \cup {p.userID},
          txLogs    |-> Append(st.txLogs,
                          [userID |-> p.userID, amount |-> p.amount, op |-> p.id]),
          callbacks |-> Append(st.callbacks, [err |-> "nil"])]

\* One iteration of the range loop over buff in flush.
ApplyOp(p, st) ==
    LET balance == Wrap(Lookup(st.state, p.userID) + p.amount) IN
    IF Insufficient(balance)
    THEN [st EXCEPT !.callbacks = Append(@, [err |-> ErrInsufficient])]
    ELSE [state     |-> [u \in DOMAIN st.state \cup {p.userID} |->
                            IF u = p.userID THEN balance ELSE st.state[u]],
          dirty     |-> st.dirty \cup {p.userID},
          txLogs    |-> Append(st.txLogs,
                          [userID |-> p.userID, amount |-> p.amount, op |-> p.id]),
          callbacks |-> Append(st.callbacks, [err |-> "nil"])]

\* The ledger and the outcomes before any op was received.
NoRef == [user_points |-> EmptyMap, point_txs |-> EmptyBag,
          outcome |-> [o \in OpIds |-> "none"]]

\* addPoint: one op in a transaction of its own. The balance is read (no row
\* reads as 0), the amount is added, a negative sum is refused and rolled
\* back, else the balance is upserted and one ledger row inserted.
addPoint(st, p) ==
    LET balance == Wrap(Lookup(st.user_points, p.userID) + p.amount) IN
    IF balance < 0
    THEN [st EXCEPT !.outcome[p.id] = "insufficient balance"]
    ELSE [user_points |-> [u \in DOMAIN st.user_points \cup {p.userID} |->
                             IF u = p.userID THEN balance ELSE st.user_points[u]],
          point_txs   |-> st.point_txs (+)
                             SetToBag({[userID |-> p.userID, amount |-> p.amount,
                                        op |-> p.id]}),
          outcome     |-> [st.outcome EXCEPT ![p.id] = "nil"]]

\* batchInsertTxLogs: the rows of logs added to point_txs.
InsertRows(txs, logs) ==
    LET rows == {logs[i] : i \in DOMAIN logs} IN
    txs (+) [r \in rows |-> Cardinality({i \in DOMAIN logs : logs[i] = r})]

\* saveDirtyState: insert ... on conflict (user_id) do update set balance.
UpsertBalances(up, st, d) ==
    [u \in DOMAIN up \cup d |-> IF u \in d THEN st[u] ELSE up[u]]

\* DispatchCallback with the callbacks taken from the end.
DispatchCallback_Reversed(i) == callbacks[Len(callbacks) + 1 - i]

\* The callback that flush sends to the i-th op of buff.
DispatchCallback(i) == callbacks[i]

\* ------------------------------------------------------------ Core B helpers

Callers == {"c1", "c2", "c3"}

Keys == {"f", "g"}

\* The feature whose row the migration inserts; "g" has no row.
FeatureRows == {"f"}

ErrInactive == "feature is not active"

ErrCanceled == "context canceled"

\* isFeatureActive that reports a row that exists as active.
isFeatureActive_RowExists(cancelled, feature, fails) ==
    IF cancelled THEN [val |-> FALSE, err |-> ErrCanceled]
    ELSE IF fails THEN [val |-> FALSE, err |-> "store error"]
    ELSE [val |-> feature \in DOMAIN features, err |-> "nil"]

\* isFeatureActive(ctx, feature): the query fails when ctx is cancelled, no
\* row reads as inactive, another error is returned.
isFeatureActive(cancelled, feature, fails) ==
    IF cancelled THEN [val |-> FALSE, err |-> ErrCanceled]
    ELSE IF fails THEN [val |-> FALSE, err |-> "store error"]
    ELSE IF feature \notin DOMAIN features THEN [val |-> FALSE, err |-> "nil"]
    ELSE [val |-> features[feature], err |-> "nil"]

\* What ensureFeatureActiveWithSingleFlight returns for Do's (active, err).
EnsureResult(val, err) ==
    IF err # "nil" THEN err
    ELSE IF ~val THEN ErrInactive
    ELSE "nil"

\* What the features table holds for the key, as isFeatureActive reads it.
ActiveNow(key) == key \in DOMAIN features /\ features[key]

\* WaiterOutcome taken from a read of the store by the waiter itself.
WaiterOutcome_OwnRead(c) == EnsureResult(ActiveNow(ckey[c]), "nil")

\* Do in a caller that joined: it returns the shared call's c.val, c.err.
WaiterOutcome(c) == EnsureResult(calls[ccall[c]].val, calls[ccall[c]].err)

\* How old the outcome out is for a caller: an answer that the store held since
\* the caller called ("own"), else one it held since the shared call was
\* installed ("call"), else an older one; an error has no age.
AgeOf(out, sinceCaller, sinceCall) ==
    IF out \notin {"nil", ErrInactive} THEN "none"
    ELSE IF (out = "nil") \in sinceCaller THEN "own"
    ELSE IF (out = "nil") \in sinceCall THEN "call"
    ELSE "older"

\* The callers still waiting for the call i.
Waiters(i) == {w \in Callers : cpc[w] = "wait" /\ ccall[w] = i}

\* ------------------------------------------------------ snapshot cache helpers

CacheReaders == {"r1", "r2"}

\* make(map[string]bool), and the nil map of featureActiveCache.m.
NoFeatures == [k \in {} |-> FALSE]

\* QueryRows of a query that selects the names only: every row reads active.
QueryRows_NamesOnly == [k \in DOMAIN features |-> TRUE]

\* select name, active from features: the rows of the table when the query
\* starts.
QueryRows == features

\* featureActiveCache.m[feature]: a key that is absent reads as false.
CacheLookup(published, feature) ==
    feature \in DOMAIN published /\ published[feature]

\* What ensureFeatureActiveWithCache returns from the map published.
CacheAnswer(published, feature) ==
    IF ~CacheLookup(published, feature) THEN ErrInactive ELSE "nil"

\* ScannedInto with the rows written into the published map itself.
ScannedInto_Published(published, built) == built

\* The published map while updateFeatureActiveCache adds a row to its own
\* map m: m is private until the swap.
ScannedInto(published, built) == published

\* AfterRefreshError of a goroutine that returns on the first error.
AfterRefreshError_Return == "stopped"

\* Where the goroutine goes when updateFeatureActiveCache returned an error:
\* it logs and stays in its loop.
AfterRefreshError == "sleep"

\* InFlight with no call ever found in the map: every caller queries.
InFlight_Never(key) == FALSE

\* singleflight.Group.Do: a call for the key is in flight, so Do waits for it.
InFlight(key) == sfm[key] # 0

\* ---------------------------------------------------------------- initial

InitA ==
    /\ user_points = EmptyMap
    /\ point_txs = EmptyBag
    /\ opChan = <<>>
    /\ doneCh = [o \in OpIds |-> <<>>]
    /\ ppc = [p \in BurstProducers |-> "loop"]
    /\ pop = [p \in BurstProducers |-> 0]
    /\ ops = <<>>
    /\ result = [o \in OpIds |-> "none"]
    /\ completions = [o \in OpIds |-> 0]
    /\ deadline = FALSE
    /\ ctxDone = FALSE
    /\ wpc = "select"
    /\ buff = <<>>
    /\ callbacks = <<>>
    /\ txLogs = <<>>
    /\ state = EmptyMap
    /\ dirty = {}
    /\ idx = 0
    /\ pre = NoStore
    /\ failures = 0
    /\ ref = NoRef

InitB ==
    /\ features = [k \in FeatureRows |-> TRUE]
    /\ sfm = [k \in Keys |-> 0]
    /\ calls = <<>>
    /\ cpc = [c \in Callers |-> "idle"]
    /\ rctx = [c \in Callers |-> FALSE]
    /\ fresh = [c \in Callers |-> {}]
    /\ age = [c \in Callers |-> "none"]
    /\ ckey = [c \in Callers |-> "f"]
    /\ ccall = [c \in Callers |-> 0]
    /\ cret = [c \in Callers |-> "none"]
    /\ ncalls = 0

\* main has migrated and calls startUpdateFeatureActiveCache; nothing is
\* published and the server does not listen yet.
InitC ==
    /\ cache = NoFeatures
    /\ rfpc = "start"
    /\ m = NoFeatures
    /\ scanSnap = NoFeatures
    /\ serving = FALSE
    /\ rkey = [r \in CacheReaders |-> "f"]
    /\ rret = [r \in CacheReaders |-> "none"]
    /\ rexp = [r \in CacheReaders |-> "none"]
    /\ installed = NoFeatures
    /\ lastErr = FALSE
    /\ scanStale = TRUE
    /\ endedAfter = FALSE
    /\ okAfter = FALSE

Init == InitA /\ InitB /\ InitC

\* --------------------------------------------------------------- producers

\* newLoadWorkerStateful: the loop finds its context done and returns.
LoadWorkerReturn(p) ==
    /\ ppc[p] = "loop"
    /\ deadline
    /\ ppc' = [ppc EXCEPT ![p] = "returned"]
    /\ UNCHANGED <<user_points, point_txs, opChan, doneCh, pop, ops, result,
                   completions, deadline, ctxDone, wpc, buff, callbacks, txLogs,
                   state, dirty, idx, pre, failures>>
    /\ UNCHANGED ref
    /\ UNCHANGED othersA

\* addPointStateful is called: it makes the done channel and the op.
Call(p, userID, amount) ==
    /\ ppc[p] = "loop"
    /\ ~deadline
    /\ Len(ops) < MaxOps
    /\ ops' = Append(ops, [id |-> Len(ops) + 1, userID |-> userID,
                           amount |-> amount])
    /\ pop' = [pop EXCEPT ![p] = Len(ops) + 1]
    /\ ppc' = [ppc EXCEPT ![p] = "send"]
    /\ UNCHANGED <<user_points, point_txs, opChan, doneCh, result,
                   completions, deadline, ctxDone, wpc, buff, callbacks, txLogs,
                   state, dirty, idx, pre, failures>>
    /\ UNCHANGED ref
    /\ UNCHANGED othersA

\* addPointStateful: opChan <- op (blocks while opChan is full).
Send(p) ==
    /\ ppc[p] = "send"
    /\ Len(opChan) < opChanCap
    /\ opChan' = Append(opChan, [id |-> pop[p], userID |-> ops[pop[p]].userID,
                                 amount |-> ops[pop[p]].amount])
    /\ ppc' = [ppc EXCEPT ![p] = "recv"]
    /\ UNCHANGED <<user_points, point_txs, doneCh, pop, ops, result,
                   completions, deadline, ctxDone, wpc, buff, callbacks, txLogs,
                   state, dirty, idx, pre, failures>>
    /\ UNCHANGED ref
    /\ UNCHANGED othersA

\* addPointStateful: cb := <-done; return cb.err (blocks while done is empty).
Recv(p) ==
    /\ ppc[p] = "recv"
    /\ doneCh[pop[p]] # <<>>
    /\ result' = [result EXCEPT ![pop[p]] = Head(doneCh[pop[p]]).err]
    /\ doneCh' = [doneCh EXCEPT ![pop[p]] = Tail(@)]
    /\ ppc' = [ppc EXCEPT ![p] = "loop"]
    /\ UNCHANGED <<user_points, point_txs, opChan, pop, ops,
                   completions, deadline, ctxDone, wpc, buff, callbacks, txLogs,
                   state, dirty, idx, pre, failures>>
    /\ UNCHANGED ref
    /\ UNCHANGED othersA

\* The deadline of the producers' context passes.
DeadlineExpires ==
    /\ ~deadline
    /\ deadline' = TRUE
    /\ UNCHANGED <<user_points, point_txs, opChan, doneCh, ppc, pop, ops, result,
                   completions, ctxDone, wpc, buff, callbacks, txLogs,
                   state, dirty, idx, pre, failures>>
    /\ UNCHANGED ref
    /\ UNCHANGED othersA

\* The worker's context is cancelled.
Shutdown ==
    /\ ~ctxDone
    /\ ctxDone' = TRUE
    /\ UNCHANGED <<user_points, point_txs, opChan, doneCh, ppc, pop, ops, result,
                   completions, deadline, wpc, buff, callbacks, txLogs,
                   state, dirty, idx, pre, failures>>
    /\ UNCHANGED ref
    /\ UNCHANGED othersA

\* ------------------------------------------------------------- startBgWorker

StoreNow == [user_points |-> user_points, point_txs |-> point_txs]

\* A store call made with the worker's context can succeed.
CanSucceed == ~ctxDone

\* A store call can fail: always once the context is cancelled, otherwise
\* within the bound on counted failures.
CanFail(counted) == ctxDone \/ ~counted \/ failures < MaxFailures

\* EnterFlush that returns at once unless buff is full.
EnterFlush_FullOnly(b) ==
    IF Len(b) < buffSize
    THEN /\ wpc' = "select"
         /\ pre' = NoStore
    ELSE /\ wpc' = "begin"
         /\ pre' = StoreNow

\* flush is entered: it returns at once on an empty buff, otherwise RunInTx
\* is reached.
EnterFlush(b) ==
    IF b = <<>>
    THEN /\ wpc' = "select"
         /\ pre' = NoStore
    ELSE /\ wpc' = "begin"
         /\ pre' = StoreNow

\* flush returns through its error branch: log and return. Nothing is sent on
\* the done channels and buff is kept; state and dirty, locals of the
\* transaction body, are gone.
FlushError ==
    /\ wpc' = "select"
    /\ state' = EmptyMap
    /\ dirty' = {}
    /\ idx' = 0
    /\ pre' = NoStore
    /\ UNCHANGED <<buff, doneCh, completions>>

\* select, case p := <-opChan: append to buff, flush at the threshold.
ReceiveOp ==
    /\ wpc = "select"
    /\ opChan # <<>>
    /\ buff' = Append(buff, Head(opChan))
    /\ opChan' = Tail(opChan)
    /\ ref' = addPoint(ref, Head(opChan))
    /\ IF Len(buff') >= buffSize
       THEN EnterFlush(buff')
       ELSE UNCHANGED <<wpc, pre>>
    /\ UNCHANGED <<user_points, point_txs, doneCh, ppc, pop, ops, result,
                   completions, deadline, ctxDone, callbacks, txLogs,
                   state, dirty, idx, failures>>
    /\ UNCHANGED othersA

\* select, case <-time.After(100ms): the timer is made anew at every select,
\* so it fires only when neither other case is ready.
TimerFires ==
    /\ wpc = "select"
    /\ opChan = <<>>
    /\ ~ctxDone
    /\ EnterFlush(buff)
    /\ UNCHANGED <<user_points, point_txs, opChan, doneCh, ppc, pop, ops, result,
                   completions, deadline, ctxDone, buff, callbacks, txLogs,
                   state, dirty, idx, failures>>
    /\ UNCHANGED ref
    /\ UNCHANGED othersA

\* select, case <-ctx.Done(): return.
WorkerExit ==
    /\ wpc = "select"
    /\ ctxDone
    /\ wpc' = "exited"
    /\ UNCHANGED <<user_points, point_txs, opChan, doneCh, ppc, pop, ops, result,
                   completions, deadline, ctxDone, buff, callbacks, txLogs,
                   state, dirty, idx, pre, failures>>
    /\ UNCHANGED ref
    /\ UNCHANGED othersA

\* flush: RunInTx begins the transaction and the body calls restoreState,
\* then truncates txLogs and callbacks.
BeginAndRestore ==
    /\ wpc = "begin"
    /\ \/ /\ CanSucceed
          /\ state' = restoreState({buff[i].userID : i \in DOMAIN buff})
          /\ dirty' = {}
          /\ txLogs' = <<>>
          /\ callbacks' = <<>>
          /\ idx' = 1
          /\ wpc' = "apply"
          /\ UNCHANGED <<buff, doneCh, completions, pre>>
       \/ /\ CanFail(FALSE)
          /\ FlushError
          /\ UNCHANGED <<txLogs, callbacks>>
    /\ UNCHANGED <<user_points, point_txs, opChan, ppc, pop, ops, result,
                   deadline, ctxDone, failures>>
    /\ UNCHANGED ref
    /\ UNCHANGED othersA

\* flush: one iteration of "for _, p := range buff".
ApplyStep ==
    /\ wpc = "apply"
    /\ LET st == ApplyOp(buff[idx], [state |-> state, dirty |-> dirty,
                                     txLogs |-> txLogs, callbacks |-> callbacks])
       IN /\ state' = st.state
          /\ dirty' = st.dirty
          /\ txLogs' = st.txLogs
          /\ callbacks' = st.callbacks
    /\ idx' = idx + 1
    /\ wpc' = IF idx + 1 > Len(buff) THEN "insert" ELSE "apply"
    /\ UNCHANGED <<user_points, point_txs, opChan, doneCh, ppc, pop, ops, result,
                   completions, deadline, ctxDone, buff, pre, failures>>
    /\ UNCHANGED ref
    /\ UNCHANGED othersA

\* flush: batchInsertTxLogs, called with the worker's context.
BatchInsertTxLogs ==
    /\ wpc = "insert"
    /\ \/ /\ txLogs = <<>>
          /\ wpc' = "save"
          /\ UNCHANGED <<point_txs, state, dirty, idx, pre, buff, doneCh, completions>>
       \/ /\ txLogs # <<>>
          /\ CanSucceed
          /\ point_txs' = InsertRows(point_txs, txLogs)
          /\ wpc' = "save"
          /\ UNCHANGED <<state, dirty, idx, pre, buff, doneCh, completions>>
       \/ /\ txLogs # <<>>
          /\ CanFail(FALSE)
          /\ FlushError
          /\ UNCHANGED point_txs
    /\ UNCHANGED <<user_points, opChan, ppc, pop, ops, result,
                   deadline, ctxDone, callbacks, txLogs, failures>>
    /\ UNCHANGED ref
    /\ UNCHANGED othersA

\* flush: saveDirtyState, called with the worker's context.
SaveDirtyState ==
    /\ wpc = "save"
    /\ \/ /\ dirty = {}
          /\ wpc' = "commit"
          /\ UNCHANGED <<user_points, state, dirty, idx, pre, buff, doneCh,
                         completions, failures>>
       \/ /\ dirty # {}
          /\ CanSucceed
          /\ user_points' = UpsertBalances(user_points, state, dirty)
          /\ wpc' = "commit"
          /\ UNCHANGED <<state, dirty, idx, pre, buff, doneCh, completions, failures>>
       \/ /\ dirty # {}
          /\ CanFail(TRUE)
          /\ failures' = IF ctxDone THEN failures ELSE failures + 1
          /\ FlushError
          /\ UNCHANGED user_points
    /\ UNCHANGED <<point_txs, opChan, ppc, pop, ops, result,
                   deadline, ctxDone, callbacks, txLogs>>
    /\ UNCHANGED ref
    /\ UNCHANGED othersA

\* flush: the body returned nil and RunInTx commits its transaction.
Commit ==
    /\ wpc = "commit"
    /\ \/ /\ CanSucceed
          /\ wpc' = "dispatch"
          /\ idx' = 1
          /\ UNCHANGED <<state, dirty, pre, buff, doneCh, completions, failures>>
       \/ /\ CanFail(TRUE)
          /\ failures' = IF ctxDone THEN failures ELSE failures + 1
          /\ FlushError
    /\ UNCHANGED <<user_points, point_txs, opChan, ppc, pop, ops, result,
                   deadline, ctxDone, callbacks, txLogs>>
    /\ UNCHANGED ref
    /\ UNCHANGED othersA

\* flush: one iteration of "for i, p := range buff { p.done <- callbacks[i] }";
\* the send blocks while the done channel is full.
Dispatch ==
    /\ wpc = "dispatch"
    /\ idx <= Len(buff)
    /\ Len(doneCh[buff[idx].id]) < 1
    /\ doneCh' = [doneCh EXCEPT ![buff[idx].id] = Append(@, DispatchCallback(idx))]
    /\ completions' = [completions EXCEPT ![buff[idx].id] = @ + 1]
    /\ idx' = idx + 1
    /\ UNCHANGED <<user_points, point_txs, opChan, ppc, pop, ops, result,
                   deadline, ctxDone, wpc, buff, callbacks, txLogs, state,
                   dirty, pre, failures>>
    /\ UNCHANGED ref
    /\ UNCHANGED othersA

\* flush: buff = buff[:0] after the dispatch loop, and flush returns.
TruncateBuff ==
    /\ wpc = "dispatch"
    /\ idx > Len(buff)
    /\ buff' = <<>>
    /\ wpc' = "select"
    /\ state' = EmptyMap
    /\ dirty' = {}
    /\ idx' = 0
    /\ pre' = NoStore
    /\ UNCHANGED <<user_points, point_txs, opChan, doneCh, ppc, pop, ops, result,
                   completions, deadline, ctxDone, callbacks, txLogs, failures>>
    /\ UNCHANGED ref
    /\ UNCHANGED othersA

\* ------------------------------------------- ensureFeatureActiveWithSingleFlight

\* featureActiveSF.Do is entered: the caller joins the call in flight for the
\* key, or installs a new call and becomes the one that runs the query. The
\* caller's request, and with it its request context, is new.
DoEnter(c, key) ==
    /\ cpc[c] = "idle"
    /\ ncalls < MaxDoCalls
    /\ ncalls' = ncalls + 1
    /\ ckey' = [ckey EXCEPT ![c] = key]
    /\ rctx' = [rctx EXCEPT ![c] = FALSE]
    /\ fresh' = [fresh EXCEPT ![c] = {ActiveNow(key)}]
    /\ age' = [age EXCEPT ![c] = "none"]
    /\ IF InFlight(key)
       THEN /\ ccall' = [ccall EXCEPT ![c] = sfm[key]]
            /\ cpc' = [cpc EXCEPT ![c] = "wait"]
            /\ UNCHANGED <<sfm, calls>>
       ELSE /\ calls' = Append(calls, [key |-> key, val |-> FALSE, err |-> "nil",
                                       done |-> FALSE, ret |-> "none",
                                       seen |-> {ActiveNow(key)}])
            /\ sfm' = [sfm EXCEPT ![key] = Len(calls) + 1]
            /\ ccall' = [ccall EXCEPT ![c] = Len(calls) + 1]
            /\ cpc' = [cpc EXCEPT ![c] = "query"]
    /\ UNCHANGED <<features, cret>>
    /\ UNCHANGED othersB

\* doCall: c.val, c.err = fn(), where fn is the closure of the caller that
\* installed the call: isFeatureActive with that caller's ctx.
RunQuery(c, fails) ==
    /\ cpc[c] = "query"
    /\ LET r == isFeatureActive(rctx[c], ckey[c], fails) IN
       calls' = [calls EXCEPT ![ccall[c]].val = r.val, ![ccall[c]].err = r.err]
    /\ cpc' = [cpc EXCEPT ![c] = "publish"]
    /\ UNCHANGED <<features, sfm, ckey, ccall, cret, ncalls, rctx, fresh, age>>
    /\ UNCHANGED othersB

\* doCall's deferred part under the mutex: wg.Done and delete(g.m, key);
\* Do then returns c.val, c.err to the caller that ran the query.
Publish(c) ==
    /\ cpc[c] = "publish"
    /\ LET out == EnsureResult(calls[ccall[c]].val, calls[ccall[c]].err) IN
       /\ calls' = [calls EXCEPT ![ccall[c]].done = TRUE, ![ccall[c]].ret = out,
                                 ![ccall[c]].seen =
                                     IF Waiters(ccall[c]) = {} THEN {} ELSE @]
       /\ cret' = [cret EXCEPT ![c] = out]
       /\ age' = [age EXCEPT ![c] = AgeOf(out, fresh[c], calls[ccall[c]].seen)]
    /\ fresh' = [fresh EXCEPT ![c] = {}]
    /\ sfm' = [sfm EXCEPT ![ckey[c]] = IF @ = ccall[c] THEN 0 ELSE @]
    /\ cpc' = [cpc EXCEPT ![c] = "idle"]
    /\ UNCHANGED <<features, ckey, ccall, ncalls, rctx>>
    /\ UNCHANGED othersB

\* Do in a caller that joined: c.wg.Wait() returns, Do returns c.val, c.err.
WaitReturns(c) ==
    /\ cpc[c] = "wait"
    /\ calls[ccall[c]].done
    /\ cret' = [cret EXCEPT ![c] = WaiterOutcome(c)]
    /\ age' = [age EXCEPT ![c] = AgeOf(WaiterOutcome(c), fresh[c],
                                       calls[ccall[c]].seen)]
    /\ fresh' = [fresh EXCEPT ![c] = {}]
    /\ calls' = [calls EXCEPT ![ccall[c]].seen =
                                  IF Waiters(ccall[c]) = {c} THEN {} ELSE @]
    /\ cpc' = [cpc EXCEPT ![c] = "idle"]
    /\ UNCHANGED <<features, sfm, ckey, ccall, ncalls, rctx>>
    /\ UNCHANGED othersB

\* A row of features is written by another client of the store. The callers
\* inside a call of the key, and the calls of the key not yet published, have
\* from now on overlapped the new value.
SetFeature(key, active) ==
    /\ features' = [k \in DOMAIN features \cup {key} |->
                      IF k = key THEN active ELSE features[k]]
    /\ features' # features
    /\ fresh' = [c \in Callers |->
                   IF cpc[c] # "idle" /\ ckey[c] = key
                   THEN fresh[c] \cup {active} ELSE fresh[c]]
    /\ calls' = [i \in DOMAIN calls |->
                   IF calls[i].key = key /\ ~calls[i].done
                   THEN [calls[i] EXCEPT !.seen = @ \cup {active}] ELSE calls[i]]
    /\ scanStale' = TRUE
    /\ endedAfter' = FALSE
    /\ okAfter' = FALSE
    /\ UNCHANGED <<sfm, cpc, ckey, ccall, cret, ncalls, rctx, age>>
    /\ UNCHANGED <<cache, rfpc, m, scanSnap, serving, rkey, rret, rexp, installed,
                   lastErr>>
    /\ UNCHANGED varsA

\* The client of a request in progress goes away: r.Context() is cancelled.
CancelRequest(c) ==
    /\ cpc[c] # "idle"
    /\ ~rctx[c]
    /\ rctx' = [rctx EXCEPT ![c] = TRUE]
    /\ UNCHANGED <<features, sfm, calls, cpc, ckey, ccall, cret, ncalls, fresh,
                   age>>
    /\ UNCHANGED othersB

\* A step in which flush returns through its error branch.
FlushFailed ==
    /\ wpc \in {"begin", "insert", "save", "commit"}
    /\ wpc' = "select"

\* ------------------------------------------------------------ snapshot cache

\* updateFeatureActiveCache is entered, by startUpdateFeatureActiveCache or by
\* its goroutine when time.After(2s) fires: m is made and the query starts.
UpdateBegins ==
    /\ rfpc \in {"start", "sleep"}
    /\ rfpc' = "scan"
    /\ m' = NoFeatures
    /\ scanSnap' = QueryRows
    /\ scanStale' = FALSE
    /\ UNCHANGED <<cache, serving, rkey, rret, rexp, installed, lastErr,
                   endedAfter, okAfter>>
    /\ UNCHANGED <<varsA, varsB>>

\* pgctx.Iter calls the function for one more row: m[name] = active.
ScanRow(name) ==
    /\ rfpc = "scan"
    /\ name \in DOMAIN scanSnap \ DOMAIN m
    /\ m' = [k \in DOMAIN m \cup {name} |->
                IF k = name THEN scanSnap[name] ELSE m[k]]
    /\ cache' = ScannedInto(cache, m')
    /\ UNCHANGED <<rfpc, scanSnap, serving, rkey, rret, rexp, installed, lastErr,
                   scanStale, endedAfter, okAfter>>
    /\ UNCHANGED <<varsA, varsB>>

\* pgctx.Iter returns an error, before the first row or after some rows:
\* updateFeatureActiveCache returns it without touching featureActiveCache.
\* The first, synchronous update makes main exit; the goroutine logs.
UpdateFails ==
    /\ rfpc = "scan"
    /\ IF serving
       THEN rfpc' = AfterRefreshError /\ lastErr' = TRUE
       ELSE rfpc' = "fatal" /\ UNCHANGED lastErr
    /\ endedAfter' = (endedAfter \/ ~scanStale)
    /\ UNCHANGED <<cache, m, scanSnap, serving, rkey, rret, rexp, installed,
                   scanStale, okAfter>>
    /\ UNCHANGED <<varsA, varsB>>

\* pgctx.Iter returns nil after the last row; Lock, featureActiveCache.m = m,
\* Unlock; return nil.
UpdateSwaps ==
    /\ rfpc = "scan"
    /\ DOMAIN m = DOMAIN scanSnap
    /\ cache' = m
    /\ installed' = scanSnap
    /\ rfpc' = "sleep"
    /\ serving' = TRUE
    /\ lastErr' = FALSE
    /\ endedAfter' = (endedAfter \/ ~scanStale)
    /\ okAfter' = (okAfter \/ ~scanStale)
    /\ UNCHANGED <<m, scanSnap, rkey, rret, rexp, scanStale>>
    /\ UNCHANGED <<varsA, varsB>>

\* ensureFeatureActiveWithCache: RLock, active := m[feature], RUnlock.
ReadCache(r, feature) ==
    /\ serving
    /\ rkey' = [rkey EXCEPT ![r] = feature]
    /\ rret' = [rret EXCEPT ![r] = CacheAnswer(cache, feature)]
    /\ rexp' = [rexp EXCEPT ![r] = CacheAnswer(installed, feature)]
    /\ UNCHANGED <<cache, rfpc, m, scanSnap, serving, installed, lastErr,
                   scanStale, endedAfter, okAfter>>
    /\ UNCHANGED <<varsA, varsB>>

\* ------------------------------------------------------------ specifications

\* The snapshot cache: its refresher, its readers and the writers of the store.
NextCache ==
    \/ UpdateBegins
    \/ \E name \in Keys : ScanRow(name)
    \/ UpdateFails
    \/ UpdateSwaps
    \/ \E r \in CacheReaders, k \in Keys : ReadCache(r, k)
    \/ \E k \in Keys, b \in BOOLEAN : SetFeature(k, b)

SpecCache == Init /\ [][NextCache]_vars

NextSF ==
    \/ \E c \in Callers, k \in Keys : DoEnter(c, k)
    \/ \E c \in Callers, fails \in BOOLEAN : RunQuery(c, fails)
    \/ \E c \in Callers : Publish(c)
    \/ \E c \in Callers : WaitReturns(c)
    \/ \E k \in FeatureRows, b \in BOOLEAN : SetFeature(k, b)

SpecSF == Init /\ [][NextSF]_vars

\* The coalescing reader with requests whose clients go away.
NextSFCtx ==
    \/ NextSF
    \/ \E c \in Callers : CancelRequest(c)

SpecSFCtx == Init /\ [][NextSFCtx]_vars

\* The steps of startBgWorker with every outcome of its store calls.
NextWorker ==
    \/ ReceiveOp
    \/ TimerFires
    \/ BeginAndRestore
    \/ ApplyStep
    \/ BatchInsertTxLogs
    \/ SaveDirtyState
    \/ Commit
    \/ Dispatch
    \/ TruncateBuff

\* The benchmark's load: more producers than buff holds, one user, credits.
BurstInputs == {<<"u1", 30>>}

NextBurst ==
    \/ \E p \in BurstProducers, in \in BurstInputs : Call(p, in[1], in[2])
    \/ \E p \in BurstProducers : Send(p)
    \/ \E p \in BurstProducers : Recv(p)
    \/ NextWorker

SpecBurst == Init /\ [][NextBurst]_vars

\* The store calls of flush when none of them fails.
Restored == BeginAndRestore /\ ~FlushFailed

Inserted == BatchInsertTxLogs /\ ~FlushFailed

Saved == SaveDirtyState /\ ~FlushFailed

Committed == Commit /\ ~FlushFailed

\* The steps of startBgWorker while no store call fails and the worker's
\* context is never cancelled.
NextWorkerOK ==
    \/ ReceiveOp
    \/ TimerFires
    \/ Restored
    \/ ApplyStep
    \/ Inserted
    \/ Saved
    \/ Committed
    \/ Dispatch
    \/ TruncateBuff

\* The benchmark's producers, with debits and credits, and that worker.
NextNoFail ==
    \/ \E p \in BurstProducers, in \in Inputs : Call(p, in[1], in[2])
    \/ \E p \in BurstProducers : Send(p)
    \/ \E p \in BurstProducers : Recv(p)
    \/ NextWorkerOK

SpecNoFail == Init /\ [][NextNoFail]_vars

\* The benchmark's producers, with the benchmark's credits, and that worker.
NextLive ==
    \/ \E p \in BurstProducers, in \in BurstInputs : Call(p, in[1], in[2])
    \/ \E p \in BurstProducers : Send(p)
    \/ \E p \in BurstProducers : Recv(p)
    \/ NextWorkerOK

FairnessLive ==
    /\ \A p \in BurstProducers : WF_vars(Send(p)) /\ WF_vars(Recv(p))
    /\ WF_vars(ReceiveOp) /\ WF_vars(TimerFires)
    /\ WF_vars(Restored) /\ WF_vars(ApplyStep)
    /\ WF_vars(Inserted) /\ WF_vars(Saved) /\ WF_vars(Committed)
    /\ WF_vars(Dispatch) /\ WF_vars(TruncateBuff)

LiveSpec == Init /\ [][NextLive]_vars /\ FairnessLive

\* The producers and the worker.
NextCore ==
    \/ \E p \in Producers, in \in Inputs : Call(p, in[1], in[2])
    \/ \E p \in Producers : Send(p)
    \/ \E p \in Producers : Recv(p)
    \/ ReceiveOp
    \/ TimerFires
    \/ BeginAndRestore
    \/ ApplyStep
    \/ BatchInsertTxLogs
    \/ SaveDirtyState
    \/ Commit
    \/ Dispatch
    \/ TruncateBuff

\* The accumulator, and the cancellation of the worker's context.
NextA ==
    \/ NextCore
    \/ Shutdown
    \/ WorkerExit

Spec == Init /\ [][NextA]_vars

\* The accumulator as main runs it: the worker's context is never cancelled,
\* the producers' context has a deadline.
NextD ==
    \/ NextCore
    \/ DeadlineExpires
    \/ \E p \in Producers : LoadWorkerReturn(p)

\* Every goroutine that can run does run, and the timer fires when it is
\* due; whether a store call succeeds is not up to the scheduler.
FairnessA ==
    /\ \A p \in Producers : WF_vars(Send(p)) /\ WF_vars(Recv(p)) /\ WF_vars(LoadWorkerReturn(p))
    /\ WF_vars(ReceiveOp)
    /\ WF_vars(TimerFires)
    /\ WF_vars(BeginAndRestore)
    /\ WF_vars(ApplyStep)
    /\ WF_vars(BatchInsertTxLogs)
    /\ WF_vars(SaveDirtyState)
    /\ WF_vars(Commit)
    /\ WF_vars(Dispatch)
    /\ WF_vars(TruncateBuff)

FairSpec == Init /\ [][NextD]_vars /\ FairnessA

\* ------------------------------------------------------- claims: definitions

\* The ops constructed so far.
Made == 1..Len(ops)

\* The op has been put on opChan by its producer.
Placed(o) ==
    /\ o \in Made
    /\ \A p \in DOMAIN ppc : ~(pop[p] = o /\ ppc[p] = "send")

\* Sum of r.amount over the rows r of the bag b, copies counted.
RECURSIVE SumAmounts(_, _)
SumAmounts(b, rows) ==
    IF rows = {} THEN 0
    ELSE LET r == CHOOSE x \in rows : TRUE IN
         r.amount * CopiesIn(r, b) + SumAmounts(b, rows \ {r})

\* Sum of the amounts of the user's rows of point_txs.
LedgerSum(u) ==
    SumAmounts(point_txs, {r \in BagToSet(point_txs) : r.userID = u})

\* Number of rows of point_txs made for op o that carry its user and amount.
RowsOf(o) ==
    CopiesIn([userID |-> ops[o].userID, amount |-> ops[o].amount, op |-> o],
             point_txs)

\* --------------------------------------------------------------------- C1

\* C1: every op placed on opChan gets exactly one completion on its done
\* channel: never two, and eventually one.
C1_ExactlyOneCompletion ==
    \A o \in OpIds :
        /\ [](completions[o] <= 1)
        /\ (Placed(o) ~> (completions[o] = 1))

\* --------------------------------------------------------------------- C2

\* C2: in every store state left by a flush, for every user, the sum of the
\* amounts of the user's point_txs rows equals the user's balance (0 without
\* a row).
C2_LedgerSumEqualsBalance ==
    wpc \in {"select", "exited"} =>
        \A u \in Users : LedgerSum(u) = Lookup(user_points, u)

\* --------------------------------------------------------------------- C3

\* C3: when a store call of a flush fails, user_points and point_txs are
\* after the flush what they were before it.
C3_FailedFlushLeavesStore ==
    [][FlushFailed =>
        /\ user_points' = pre.user_points
        /\ point_txs' = pre.point_txs]_vars

\* --------------------------------------------------------------------- C4

\* C4: when the flush transaction returns an error, every op of the batch
\* has a completion on its done channel and buff is empty when the worker
\* is back at its select.
C4_FailedFlushCompletesBatch ==
    [][FlushFailed =>
        /\ buff' = <<>>
        /\ \A i \in DOMAIN buff : doneCh'[buff[i].id] # <<>>]_vars

\* --------------------------------------------------------------------- C5

\* C5: every balance of user_points is >= 0 in every reachable store state.
C5_BalanceNonNegative ==
    \A u \in DOMAIN user_points : user_points[u] >= 0

\* A credit was refused because the sum overflowed, on a user whose stored
\* balance is positive.
C5_Witness ==
    \E o \in Made :
        /\ ops[o].amount > 0
        /\ result[o] = ErrInsufficient
        /\ Lookup(user_points, ops[o].userID) > 0

\* --------------------------------------------------------------------- C6

\* C6: for every op whose producer received success, exactly one point_txs
\* row with the op's user and amount has been inserted.
C6_OneRowPerSuccess ==
    \A o \in Made : result[o] = "nil" => RowsOf(o) = 1

\* --------------------------------------------------------------------- C7

\* C7: an op completed with the insufficient-balance error because its
\* user's balance plus its amount was below zero changes nothing: no
\* point_txs row results from it. (A debit never overflows a balance >= 0,
\* so a debit is refused only for a sum below zero.)
C7_InsufficientLeavesNoRow ==
    \A o \in Made :
        (result[o] = ErrInsufficient /\ ops[o].amount < 0) => RowsOf(o) = 0

\* --------------------------------------------------------------------- C8

\* Number of ops of buff the apply loop of the flush in progress has handled.
NApplied == IF wpc = "apply" THEN idx - 1 ELSE Len(buff)

\* Sum of the amounts of the ops before position j of buff that are on user
\* u and were accepted.
RECURSIVE AcceptedSum(_, _)
AcceptedSum(u, j) ==
    IF j <= 1 THEN 0
    ELSE AcceptedSum(u, j - 1)
         + (IF buff[j - 1].userID = u /\ callbacks[j - 1].err = "nil"
            THEN buff[j - 1].amount ELSE 0)

\* The balance of u that the op at position j of buff is judged against:
\* the stored balance at the start of the flush plus the accepted earlier
\* ops of the batch on u.
BalanceBefore(u, j) == Lookup(pre.user_points, u) + AcceptedSum(u, j)

\* The completion op o has been sent, while in its channel or once received.
Delivered(o) == IF doneCh[o] # <<>> THEN Head(doneCh[o]).err ELSE result[o]

\* Two debits of 20 on one user in the batch, stored balance 30.
TwoDebitsFrom30 ==
    /\ Len(buff) = 2
    /\ buff[1].userID = buff[2].userID
    /\ buff[1].amount = -20
    /\ buff[2].amount = -20
    /\ Lookup(pre.user_points, buff[1].userID) = 30

\* C8: within a flush the ops are applied in the order of buff, each judged
\* against the balance left by the earlier ops of the batch on its user, and
\* the i-th completion sent is the i-th op's; from a stored balance of 30 two
\* debits of 20 give success to the first, insufficient balance to the
\* second, and leave 10.
C8_AppliedInOrder ==
    wpc \in {"apply", "insert", "save", "commit", "dispatch"} =>
        /\ Len(callbacks) = NApplied
        /\ \A j \in 1..NApplied :
              callbacks[j].err =
                  IF Wrap(BalanceBefore(buff[j].userID, j) + buff[j].amount) < 0
                  THEN ErrInsufficient ELSE "nil"
        /\ \A i \in DOMAIN buff :
              Lookup(state, buff[i].userID) = BalanceBefore(buff[i].userID, NApplied + 1)
        /\ wpc = "dispatch" =>
              \A j \in 1..(idx - 1) : Delivered(buff[j].id) = callbacks[j].err
        /\ (wpc # "apply" /\ TwoDebitsFrom30) =>
              /\ callbacks = <<[err |-> "nil"], [err |-> ErrInsufficient]>>
              /\ state[buff[1].userID] = 10

\* Both completions of the two debits from 30 have been sent and the balance
\* 10 is stored.
C8_Witness ==
    /\ wpc = "dispatch"
    /\ idx = 3
    /\ TwoDebitsFrom30
    /\ user_points[buff[1].userID] = 10
    /\ Delivered(buff[1].id) = "nil"
    /\ Delivered(buff[2].id) = ErrInsufficient

\* --------------------------------------------------------------------- C9

\* C9: a call of addPointStateful whose caller's deadline has passed while it
\* is blocked (on the send to opChan or on the receive from done) returns.
C9_DeadlineCancelsSubmit ==
    \A p \in Producers :
        (deadline /\ ppc[p] \in {"send", "recv"}) ~> (ppc[p] \in {"loop", "returned"})

\* -------------------------------------------------------------------- C10

\* The callers whose store query for the key is running.
Querying(key) == {c \in Callers : cpc[c] = "query" /\ ckey[c] = key}

\* The callers that ran or run the query of a call not yet published.
Leading(key) == {c \in Callers : cpc[c] \in {"query", "publish"} /\ ckey[c] = key}

\* The callers waiting for a call of the key that is not published yet.
Joined(key) ==
    {c \in Callers : cpc[c] = "wait" /\ ckey[c] = key /\ ~calls[ccall[c]].done}

\* C10: at most one store query runs for a key at any moment, and the callers
\* that overlap a call in flight wait for that one call instead of querying.
C10_OneQueryPerKey ==
    \A k \in Keys :
        /\ Cardinality(Querying(k)) <= 1
        /\ Cardinality(Leading(k)) <= 1
        /\ \A w \in Joined(k) :
              \E l \in Leading(k) : ccall[l] = ccall[w] /\ sfm[k] = ccall[w]

\* Two callers wait for the call of "f" whose query a third is running.
C10_Witness ==
    /\ Cardinality(Querying("f")) = 1
    /\ Cardinality(Joined("f")) = 2

\* ------------------------------------------------------------------- C11

\* The callers that have returned from the call i of the coalescing reader.
Returned(i) == {c \in Callers : cpc[c] = "idle" /\ ccall[c] = i}

\* C11: every caller that joined a call in flight returns the outcome that the
\* caller who ran the query returned: the same nil or inactive answer when the
\* query succeeded, the same error when it failed.
C11_WaitersShareOutcome ==
    \A i \in DOMAIN calls : \A c \in Returned(i) : cret[c] = calls[i].ret

\* A waiter and the caller that ran the query have both returned the error of
\* the one failed query.
C11_Witness ==
    \E i \in DOMAIN calls :
        /\ calls[i].ret = "store error"
        /\ Cardinality(Returned(i)) >= 2

\* ------------------------------------------------------------------- C12

\* C12 as stated: the answer a caller of the coalescing reader receives is a
\* value the store held at or after the moment that caller called, so a caller
\* that starts after a write never receives the value from before that write.
C12_AnswerNotOlderThanCaller ==
    \A c \in Callers : age[c] \in {"none", "own"}

\* C12 amended: the answer is a value the store held at or after the moment
\* the call it shared was installed by the caller that ran the query; for a
\* caller that joined, that moment lies before its own call.
C12_AnswerNotOlderThanCall ==
    \A c \in Callers : age[c] \in {"none", "own", "call"}

\* A caller that joined after a write has returned the value from before it.
C12_Witness ==
    \E c \in Callers : cpc[c] = "idle" /\ age[c] = "call"

\* ------------------------------------------------------------------- C19

\* C19: a caller of the coalescing reader returns the cancellation error only
\* when its own request context was cancelled: the cancellation of the request
\* of the caller that runs the shared query does not reach a waiter.
C19_OutcomeIndependentOfOtherContext ==
    \A c \in Callers : (cpc[c] = "idle" /\ cret[c] = ErrCanceled) => rctx[c]

\* ------------------------------------------------------------------- C13

\* C13: from the first successful refresh on, the published map is exactly
\* the row set of the query of the last refresh that succeeded, never a map
\* under construction, and every ensureFeatureActiveWithCache answers from
\* that map, a key absent from it reading as inactive.
C13_ReadersSeeInstalledSnapshot ==
    /\ cache = installed
    /\ \A r \in CacheReaders : rret[r] = rexp[r]
    /\ \A k \in Keys : k \notin DOMAIN cache => CacheAnswer(cache, k) = ErrInactive

\* A refresh has scanned a row that differs from the published map, and a
\* reader has answered a key that the published map does not hold.
C13_Witness ==
    /\ rfpc = "scan"
    /\ m # NoFeatures
    /\ \E k \in DOMAIN m : ~(k \in DOMAIN cache /\ cache[k] = m[k])
    /\ \E r \in CacheReaders : rret[r] = ErrInactive /\ rkey[r] \notin DOMAIN cache

\* ------------------------------------------------------------------- C14

\* A refresh of the goroutine returns an error in this step.
RefreshFails == serving /\ rfpc = "scan" /\ rfpc' # "scan" /\ lastErr'

\* C14: a step in which a refresh of the goroutine fails, with or without rows
\* scanned, leaves the published map as it was and leaves the goroutine
\* waiting for its next interval, from where the next refresh can begin.
C14_FailedRefreshKeepsSnapshot ==
    /\ [][RefreshFails => cache' = cache /\ rfpc' = "sleep"]_vars
    /\ [](rfpc = "sleep" => ENABLED UpdateBegins)

\* A refresh has failed after it scanned a row that differs from the published
\* map; the goroutine waits for the next interval.
C14_Witness ==
    /\ lastErr
    /\ rfpc = "sleep"
    /\ \E k \in DOMAIN m : ~(k \in DOMAIN cache /\ cache[k] = m[k])
    /\ cache = installed

\* ------------------------------------------------------------------- C15

\* The published map answers every key as the store would.
CacheCurrent ==
    \A k \in Keys : CacheLookup(cache, k) = ActiveNow(k)

\* C15 as stated: while the server runs, once the first refresh that began
\* after the last write of the store has ended (one interval and one query
\* after the write at most), every reader gets the value written.
C15_StaleAtMostOneRefresh == (serving /\ endedAfter) => CacheCurrent

\* C15 amended: while the server runs, once a refresh that began after the
\* last write of the store has ended without error, every reader gets the
\* value written.
C15_StaleUntilSuccessfulRefresh == (serving /\ okAfter) => CacheCurrent

\* The flag of "f" was cleared, a refresh that began afterwards has succeeded,
\* and a reader has got the value written.
C15_Witness ==
    /\ okAfter
    /\ rfpc = "sleep"
    /\ ~ActiveNow("f")
    /\ \E r \in CacheReaders : rkey[r] = "f" /\ rret[r] = ErrInactive

\* ------------------------------------------------------------------- C16

\* The select loop takes an op from opChan in this step.
TakesOp == wpc = "select" /\ Len(buff') > Len(buff)

\* A flush with ops to flush begins in this step.
StartsFlush == wpc = "select" /\ wpc' = "begin"

\* C16: once the worker's context is cancelled, no step of the loop takes an
\* op from opChan and none starts a flush.
C16_ShutdownStopsLoop ==
    [][ctxDone => ~TakesOp /\ ~StartsFlush]_vars

\* ------------------------------------------------------------------- C17

\* C17: buff holds at most buffSize ops, when the loop waits in its select
\* and therefore in every flush.
C17_BufferBounded == Len(buff) <= buffSize

\* ------------------------------------------------------------------- C18

\* The op has been completed and addPointStateful has returned for it.
Returned18(o) == completions[o] = 1 /\ result[o] # "none"

\* C18: while the worker's context is never cancelled and no store call
\* fails, every op placed on opChan is eventually completed and its call
\* returns; and a receive that fills buff to buffSize starts the flush in the
\* same step, whether or not the timer ever fires.
C18_EveryOpCompletes ==
    /\ \A o \in OpIds : Placed(o) ~> Returned18(o)
    /\ [][(TakesOp /\ Len(buff') >= buffSize) => StartsFlush]_vars

\* A flush was started by the size threshold while another op is waiting on
\* opChan, which keeps the timer from firing.
C18_Witness ==
    /\ wpc = "begin"
    /\ Len(buff) = buffSize
    /\ opChan # <<>>

\* ------------------------------------------------------------------- C20

\* The loop waits with every op it received flushed.
Quiescent == wpc = "select" /\ buff = <<>>

\* C20: while no store call fails, whenever every op received has been
\* flushed, whatever the batches were, user_points and point_txs are what
\* addPoint would have made of the same ops taken one by one in the order of
\* their receipt, and every completion sent carries addPoint's outcome.
C20_BatchedEqualsOneByOne ==
    /\ Quiescent => /\ user_points = ref.user_points
                    /\ point_txs = ref.point_txs
    /\ \A o \in Made : completions[o] >= 1 => Delivered(o) = ref.outcome[o]

\* Three ops went through more than one flush, one of them refused for
\* insufficient balance, two applied.
C20_Witness ==
    /\ Quiescent
    /\ Len(ops) = 3
    /\ \A o \in Made : result[o] # "none"
    /\ \E o \in Made : result[o] = ErrInsufficient
    /\ \E u \in DOMAIN user_points : user_points[u] = 10

====
